---------------------------- MODULE Spec2Model ----------------------------
(***************************************************************************)
(* Model of the eagle-symlink reconciliation engine:                       *)
(*   lib/core.ts       sanitizeFilename, generateTargetPath,               *)
(*                     computeSyncPlan                                     *)
(*   lib/executors.ts  executeRemovals, executeEntryDir, executeEntryFile, *)
(*                     executeCopy, executePlan                            *)
(*   hooks/useSync.tsx sync (plan, execute, persist the new index)         *)
(*   hooks/index.ts    useConfig (the config of the current library)       *)
(*                                                                         *)
(* Strings are sequences of one-character strings, so that sanitizing,     *)
(* case folding, slicing and path.basename are computed as the code        *)
(* computes them.  A SyncIndex is a JavaScript object with string keys     *)
(* that are not array indices (Eagle ids are 13 character alphanumerics),  *)
(* so Object.entries enumerates it in insertion order: it is modelled as a *)
(* sequence of [id, path] records with distinct ids.                       *)
(* The target directory lives on a case-insensitive (Windows) filesystem:  *)
(* an entry is identified by its lower-cased path.                         *)
(***************************************************************************)
EXTENDS Integers, Sequences, FiniteSets, TLC

\* ------------------------------------------------------------------ bounds
\* Number of sync runs in one behaviour.
MaxRuns == 2
\* Largest number of desired items in one run.
MaxItems == 3
\* Largest number of entries of an arbitrary previous index (SpecPlan).
MaxIndex == 2

\* Longest item name and extension of the naming preview (SpecNames).
MaxNameLen == 2

\* ------------------------------------------------------------- characters
Lowers == <<"a", "b", "c", "d", "e", "f", "g", "h", "i", "j", "k", "l", "m",
            "n", "o", "p", "q", "r", "s", "t", "u", "v", "w", "x", "y", "z">>
Uppers == <<"A", "B", "C", "D", "E", "F", "G", "H", "I", "J", "K", "L", "M",
            "N", "O", "P", "Q", "R", "S", "T", "U", "V", "W", "X", "Y", "Z">>

\* The case mappings of the letters, as lookup tables.
lowerOf == [c \in {Uppers[n] : n \in DOMAIN Uppers} |->
               Lowers[CHOOSE n \in DOMAIN Uppers : Uppers[n] = c]]
upperOf == [c \in {Lowers[n] : n \in DOMAIN Lowers} |->
               Uppers[CHOOSE n \in DOMAIN Lowers : Lowers[n] = c]]

\* String.prototype.toLowerCase, one character.
toLowerChar(c) == IF c \in DOMAIN lowerOf THEN lowerOf[c] ELSE c

\* String.prototype.toUpperCase, one character.
toUpperChar(c) == IF c \in DOMAIN upperOf THEN upperOf[c] ELSE c

toLowerCase(s) == [k \in DOMAIN s |-> toLowerChar(s[k])]
toUpperCase(s) == [k \in DOMAIN s |-> toUpperChar(s[k])]

\* core.ts:12  /[<>:"/\\|?*]/g
INVALID_FILENAME_CHARS == {"<", ">", ":", "\"", "/", "\\", "|", "?", "*"}

\* core.ts:17-19
sanitizeFilename(name) ==
    [k \in DOMAIN name |-> IF name[k] \in INVALID_FILENAME_CHARS THEN "_" ELSE name[k]]

\* ------------------------------------------------------------------ paths
\* Path separators path.basename recognises on win32.
Separators == {"/", "\\"}

\* path.join(dir, name) for a directory and a name that hold no ".", ".."
\* or empty segment (the pools below hold none), so normalisation only
\* inserts the separator.
pathJoin(dir, name) == dir \o <<"/">> \o name

\* path.basename: the part after the last separator.
basename(p) ==
    LET seps == {k \in DOMAIN p : p[k] \in Separators}
        last == IF seps = {} THEN 0 ELSE CHOOSE k \in seps : \A j \in seps : j <= k
    IN  SubSeq(p, last + 1, Len(p))

\* String.prototype.slice(0, n)
slice0(s, n) == SubSeq(s, 1, IF Len(s) < n THEN Len(s) ELSE n)

\* core.ts:52  item.id.slice(0, 8)
IdPrefixLen == 8

\* ------------------------------------------------------------------ pools
TargetDir == <<"T">>
Modes == {"entry-dir", "entry-file", "copy"}

Png == <<"p", "n", "g">>

\* The catalog of the library: A and C have the same name, B's name is equal
\* to it once sanitized and ignoring case, B and C share the first eight
\* characters of the id once upper-cased (B's id has a lower-case letter),
\* and D's own name is the id-suffixed form of A's.
ItemA == [id |-> <<"A","A","A","A","A","A","A","A","1">>, name |-> <<"a", "_">>, ext |-> Png]
ItemB == [id |-> <<"b","B","B","B","B","B","B","B","1">>, name |-> <<"A", ":">>, ext |-> Png]
ItemC == [id |-> <<"B","B","B","B","B","B","B","B","2">>, name |-> <<"a", "_">>, ext |-> Png]
ItemD == [id |-> <<"C","C","C","C","C","C","C","C","1">>,
          name |-> <<"a", "_", " ", "(", "A","A","A","A","A","A","A","A", ")">>, ext |-> Png]
Catalog == {ItemA, ItemB, ItemC, ItemD}
Ids == {it.id : it \in Catalog}

\* Two Eagle libraries.  The items above are those of LibA; LibB holds one
\* item of its own.
LibA == "LibA"
LibB == "LibB"
Libraries == {LibA, LibB}
ItemE == [id |-> <<"D","D","D","D","D","D","D","D","1">>, name |-> <<"e">>, ext |-> Png]

\* ------------------------------------------------------- generateTargetPath
\* Variants with a seeded fault are defined right before the operator they
\* are a variant of.

\* Variant: entry-dir mode names the link after the item's name.
generateTargetPathByName(item, targetDir, mode, existingNames) ==
    LET safeName == sanitizeFilename(item.name)
        baseName == safeName \o <<".">> \o item.ext
        idPart == toUpperCase(slice0(item.id, IdPrefixLen))
        collisionName == safeName \o <<" ", "(">> \o idPart \o <<")", ".">> \o item.ext
    IN  IF mode = "entry-dir"
        THEN pathJoin(targetDir, safeName \o <<".", "i", "n", "f", "o">>)
        ELSE IF toLowerCase(baseName) \notin existingNames
             THEN pathJoin(targetDir, baseName)
             ELSE pathJoin(targetDir, collisionName)

\* Variant: the base name is looked up in existingNames as it is, and the id
\* prefix is taken as it is.
generateTargetPathCaseBlind(item, targetDir, mode, existingNames) ==
    IF mode = "entry-dir"
    THEN pathJoin(targetDir, item.id \o <<".", "i", "n", "f", "o">>)
    ELSE LET safeName == sanitizeFilename(item.name)
             baseName == safeName \o <<".">> \o item.ext
             idPart == slice0(item.id, IdPrefixLen)
             collisionName == safeName \o <<" ", "(">> \o idPart \o <<")", ".">> \o item.ext
         IN  IF baseName \notin existingNames
             THEN pathJoin(targetDir, baseName)
             ELSE pathJoin(targetDir, collisionName)

\* core.ts:30-55
generateTargetPath(item, targetDir, mode, existingNames) ==
    IF mode = "entry-dir"
    THEN pathJoin(targetDir, item.id \o <<".", "i", "n", "f", "o">>)
    ELSE LET safeName == sanitizeFilename(item.name)
             baseName == safeName \o <<".">> \o item.ext
             idPart == toUpperCase(slice0(item.id, IdPrefixLen))
             collisionName == safeName \o <<" ", "(">> \o idPart \o <<")", ".">> \o item.ext
         IN  IF toLowerCase(baseName) \notin existingNames
             THEN pathJoin(targetDir, baseName)
             ELSE pathJoin(targetDir, collisionName)

\* ------------------------------------------------------------------ index
indexKeys(index) == {index[k].id : k \in DOMAIN index}
indexGet(index, id) == index[CHOOSE k \in DOMAIN index : index[k].id = id].path

\* index[id] = path : an existing key keeps its position, a new key is appended.
indexSet(index, id, path) ==
    IF id \in indexKeys(index)
    THEN [k \in DOMAIN index |-> IF index[k].id = id THEN [id |-> id, path |-> path] ELSE index[k]]
    ELSE Append(index, [id |-> id, path |-> path])

seqRemoveAt(s, k) == SubSeq(s, 1, k - 1) \o SubSeq(s, k + 1, Len(s))

\* Variant: the repair deletes the entry entered last under the path.
indexDeleteLastWithPath(index, removedPath) ==
    LET hits == {k \in DOMAIN index : index[k].path = removedPath}
    IN  IF hits = {} THEN index
        ELSE seqRemoveAt(index, CHOOSE k \in hits : \A j \in hits : k >= j)

\* for (const [itemId, indexPath] of Object.entries(index))
\*   if (indexPath === removedPath) { delete index[itemId]; break; }
indexDeleteFirstWithPath(index, removedPath) ==
    LET hits == {k \in DOMAIN index : index[k].path = removedPath}
    IN  IF hits = {} THEN index
        ELSE seqRemoveAt(index, CHOOSE k \in hits : \A j \in hits : k <= j)

RECURSIVE indexRepair(_, _, _)
\* executors.ts:109-117, 162-170, 219-227
indexRepair(index, toRemove, k) ==
    IF k > Len(toRemove) THEN index
    ELSE indexRepair(indexDeleteFirstWithPath(index, toRemove[k]), toRemove, k + 1)

RECURSIVE indexAddCreated(_, _, _)
\* core.ts:142-144  for (const { item, targetPath } of plan.toCreate)
indexAddCreated(index, toCreate, k) ==
    IF k > Len(toCreate) THEN index
    ELSE indexAddCreated(indexSet(index, toCreate[k].item.id, toCreate[k].targetPath), toCreate, k + 1)

\* core.ts:124-147: on a copy of currentIndex, the entries of the removed
\* paths are deleted, then the created items are entered.
buildNewIndex(currentIndex, plan) ==
    indexAddCreated(indexRepair(currentIndex, plan.toRemove, 1), plan.toCreate, 1)

\* ---------------------------------------------------------- computeSyncPlan
\* Variant: every index entry reserves its name, also those being removed.
keptNamesAll(items, currentIndex) ==
    {toLowerCase(basename(currentIndex[j].path)) : j \in DOMAIN currentIndex}

\* core.ts:86-95  names of the entries that stay
keptNames(items, currentIndex) ==
    {toLowerCase(basename(indexGet(currentIndex, items[k].id))) :
        k \in {j \in DOMAIN items : items[j].id \in indexKeys(currentIndex)}}

RECURSIVE createLoopNoClaim(_, _, _, _, _, _, _)
\* Variant: a new item's name is not added to existingNames.
createLoopNoClaim(items, currentIndex, mode, targetDir, k, existingNames, toCreate) ==
    IF k > Len(items) THEN toCreate
    ELSE IF items[k].id \in indexKeys(currentIndex)
         THEN createLoopNoClaim(items, currentIndex, mode, targetDir, k + 1, existingNames, toCreate)
         ELSE LET targetPath == generateTargetPath(items[k], targetDir, mode, existingNames)
              IN  createLoopNoClaim(items, currentIndex, mode, targetDir, k + 1, existingNames,
                                    Append(toCreate, [item |-> items[k], targetPath |-> targetPath]))

RECURSIVE createLoop(_, _, _, _, _, _, _)
\* core.ts:97-105
createLoop(items, currentIndex, mode, targetDir, k, existingNames, toCreate) ==
    IF k > Len(items) THEN toCreate
    ELSE IF items[k].id \in indexKeys(currentIndex)
         THEN createLoop(items, currentIndex, mode, targetDir, k + 1, existingNames, toCreate)
         ELSE LET targetPath == generateTargetPath(items[k], targetDir, mode, existingNames)
              IN  createLoop(items, currentIndex, mode, targetDir, k + 1,
                             existingNames \cup {toLowerCase(basename(targetPath))},
                             Append(toCreate, [item |-> items[k], targetPath |-> targetPath]))

\* Variant: the test on filteredIds is inverted.
removeLoopInverted(items, currentIndex) ==
    LET filteredIds == {items[k].id : k \in DOMAIN items}
        gone == SelectSeq(currentIndex, LAMBDA e : e.id \in filteredIds)
    IN  [k \in DOMAIN gone |-> gone[k].path]

\* core.ts:107-112
removeLoop(items, currentIndex) ==
    LET filteredIds == {items[k].id : k \in DOMAIN items}
        gone == SelectSeq(currentIndex, LAMBDA e : e.id \notin filteredIds)
    IN  [k \in DOMAIN gone |-> gone[k].path]

\* core.ts:66-115
computeSyncPlan(items, currentIndex, mode, targetDir) ==
    [toCreate |-> createLoop(items, currentIndex, mode, targetDir, 1,
                             keptNames(items, currentIndex), <<>>),
     toRemove |-> removeLoop(items, currentIndex),
     skipped  |-> <<>>]


\* ------------------------------------------------------------------ state
VARIABLES
    mode,       \* config.mode of the config the hooks hold
    syncIndex,  \* config.syncIndex of the config the hooks hold
    fs,         \* entries of the target directory: [path (lower-cased), item]
    pc,         \* position of sync(): "idle", "ensuring", "fetching",
                \* "removing", "creating", "executed"
    runs,       \* number of runs started
    items,      \* syncItems of the run in flight
    plan,       \* the SyncPlan of the run in flight
    result,     \* the SyncResult being built by executePlan
    k,          \* loop position in plan.toRemove / plan.toCreate
    log,        \* history: what each removal and creation of the run met
    status,     \* useSync's status: "idle", "syncing", "success", "error"
    isRunning,  \* isRunningRef.current
    dirExists,  \* the target directory exists
    library,    \* the library the module-level configInstance is bound to
    stored,     \* the stored configuration of each library
    runConfig,  \* the config object the closures of the run in flight hold
    runLibrary, \* history: the library that was current when the run began
    ignored,    \* history: a sync() call returned at the guard during this run
    service     \* the background-service instance of the app: its isRunningRef,
                \* the config its hooks hold, and the number of its runs

vars == <<mode, syncIndex, fs, pc, runs, items, plan, result, k, log,
          status, isRunning, dirExists, library, stored, runConfig, runLibrary, ignored, service>>

emptyPlan == [toCreate |-> <<>>, toRemove |-> <<>>, skipped |-> <<>>]
emptyResult == [created |-> 0, removed |-> 0, skipped |-> 0, newIndex |-> <<>>, errors |-> <<>>]

\* Sequences of at most n distinct catalog items, in any order.
RECURSIVE itemSeqs(_)
itemSeqs(n) ==
    IF n = 0 THEN {<<>>}
    ELSE LET shorter == itemSeqs(n - 1)
             longest == {t \in shorter : Len(t) = n - 1}
         IN  shorter \cup
             UNION {{Append(t, it) : it \in {c \in Catalog : \A j \in DOMAIN t : t[j].id # c.id}} :
                    t \in longest}

DesiredSeqs == itemSeqs(MaxItems)

fsHas(f, path) == \E e \in f : e.path = toLowerCase(path)
fsRemove(f, path) == {e \in f : e.path # toLowerCase(path)}
fsPut(f, path, id) == fsRemove(f, path) \cup {[path |-> toLowerCase(path), item |-> id]}

\* eagle.item.getAll() answers for the library that is current at the call;
\* useSync.tsx:101-121 filters and maps the answer.
desiredOf(lib) == IF lib = LibA THEN DesiredSeqs ELSE {<<>>, <<ItemE>>}

\* hooks/index.ts:51-59: a library nothing was stored for yet loads as
\* DEFAULT_CONFIG.
DEFAULT_CONFIG == [mode |-> "entry-file", syncIndex |-> <<>>]

Init ==
    /\ mode \in Modes
    /\ syncIndex = <<>>
    /\ fs = {}
    /\ pc = "idle"
    /\ runs = 0
    /\ items = <<>>
    /\ plan = emptyPlan
    /\ result = emptyResult
    /\ k = 1
    /\ log = <<>>
    /\ status = "idle"
    /\ isRunning = FALSE
    /\ dirExists = FALSE
    /\ library = LibA
    /\ stored = [l \in Libraries |->
                    IF l = LibA THEN [mode |-> mode, syncIndex |-> <<>>] ELSE DEFAULT_CONFIG]
    /\ runConfig = DEFAULT_CONFIG
    /\ runLibrary = LibA
    /\ ignored = FALSE
    /\ service = [isRunning |-> FALSE, runs |-> 0,
                  config |-> [mode |-> mode, syncIndex |-> syncIndex]]

\* Variant: the guard does not look at isRunningRef, a call made during a
\* run starts a second one.
StartSyncUnguarded ==
    /\ runs < MaxRuns
    /\ isRunning' = TRUE
    /\ status' = "syncing"
    /\ runs' = runs + 1
    /\ runConfig' = [mode |-> mode, syncIndex |-> syncIndex]
    /\ runLibrary' = library
    /\ pc' = "ensuring"
    /\ items' = <<>>
    /\ plan' = emptyPlan
    /\ result' = emptyResult
    /\ k' = 1
    /\ log' = <<>>
    /\ UNCHANGED <<mode, syncIndex, fs, dirExists, library, stored, ignored, service>>

\* useSync.tsx:87-95: a sync() call that passes the guard.  The closure holds
\* the config of the render it was made in.
StartSync ==
    /\ pc = "idle"
    /\ ~isRunning
    /\ runs < MaxRuns
    /\ isRunning' = TRUE
    /\ status' = "syncing"
    /\ runs' = runs + 1
    /\ runConfig' = [mode |-> mode, syncIndex |-> syncIndex]
    /\ runLibrary' = library
    /\ pc' = "ensuring"
    /\ items' = <<>>
    /\ plan' = emptyPlan
    /\ result' = emptyResult
    /\ k' = 1
    /\ log' = <<>>
    /\ UNCHANGED <<mode, syncIndex, fs, dirExists, library, stored, ignored, service>>

\* useSync.tsx:87-90: a sync() call made while a run is in flight returns at
\* the guard.
SyncIgnored ==
    /\ isRunning
    /\ ignored' = TRUE
    /\ UNCHANGED <<mode, syncIndex, fs, pc, runs, items, plan, result, k, log,
                   status, isRunning, dirExists, library, stored, runConfig, runLibrary>>
    /\ UNCHANGED service

\* useSync.tsx:98 and executors.ts:29-37: mkdir -p of the target directory
\* succeeds.
EnsureDir ==
    /\ pc = "ensuring"
    /\ dirExists' = TRUE
    /\ pc' = "fetching"
    /\ UNCHANGED <<mode, syncIndex, fs, runs, items, plan, result, k, log,
                   status, isRunning, library, stored, runConfig, runLibrary, ignored, service>>

\* Variant: the failure of ensureTargetDir is swallowed and the run goes on.
SyncDirFailGoesOn ==
    /\ pc = "ensuring"
    /\ pc' = "fetching"
    /\ UNCHANGED <<mode, syncIndex, fs, runs, items, plan, result, k, log,
                   status, isRunning, dirExists, library, stored, runConfig, runLibrary, ignored, service>>

\* useSync.tsx:96-98, 172-187 and executors.ts:33-36: ensureTargetDir throws,
\* the run ends in the error state before anything is fetched or planned.
SyncDirFail ==
    /\ pc = "ensuring"
    /\ status' = "error"
    /\ isRunning' = FALSE
    /\ pc' = "idle"
    /\ ignored' = FALSE
    /\ UNCHANGED <<mode, syncIndex, fs, runs, items, plan, result, k, log,
                   dirExists, library, stored, runConfig, runLibrary>>
    /\ UNCHANGED service

\* useSync.tsx:100-129 and executors.ts:131-137: the items are fetched,
\* filtered and mapped, the plan is computed from the config the closure
\* holds, and executePlan starts on a copy of that config's index.
FetchAndPlan ==
    /\ pc = "fetching"
    /\ \E its \in desiredOf(library) :
        /\ items' = its
        /\ plan' = computeSyncPlan(its, runConfig.syncIndex, runConfig.mode, TargetDir)
    /\ result' = [emptyResult EXCEPT !.newIndex = runConfig.syncIndex]
    /\ pc' = "removing"
    /\ k' = 1
    /\ UNCHANGED <<mode, syncIndex, fs, runs, log,
                   status, isRunning, dirExists, library, stored, runConfig, runLibrary, ignored, service>>

\* Variant: a removal that finds nothing at the path reports it as an error.
recordAbsentAsError(res, targetPath) ==
    [res EXCEPT !.errors = Append(@, [kind |-> "path", key |-> targetPath])]

\* executors.ts:57-58: lstat yields null, the path is passed over.
recordAbsent(res, targetPath) == res

\* executors.ts:59-61
recordRemoved(res, targetPath) == [res EXCEPT !.removed = @ + 1]

\* executors.ts:63-65
recordRemoveError(res, targetPath) ==
    [res EXCEPT !.errors = Append(@, [kind |-> "path", key |-> targetPath])]

\* executors.ts:54-66, one iteration of executeRemovals.
\*   "absent"   lstat finds nothing: nothing is done
\*   "unprobed" the entry exists but lstat throws; the catch turns the
\*              failure into null and the path is passed over like an
\*              absent one
\*   "removed"  the entry exists and fs.rm succeeds
\*   "failed"   the entry exists and fs.rm throws
RemoveStep ==
    /\ pc = "removing"
    /\ k <= Len(plan.toRemove)
    /\ LET targetPath == plan.toRemove[k]
       IN  IF ~fsHas(fs, targetPath)
           THEN /\ result' = recordAbsent(result, targetPath)
                /\ log' = Append(log, [op |-> "remove", key |-> targetPath, outcome |-> "absent"])
                /\ UNCHANGED fs
           ELSE \/ /\ result' = recordAbsent(result, targetPath)
                   /\ log' = Append(log, [op |-> "remove", key |-> targetPath, outcome |-> "unprobed"])
                   /\ UNCHANGED fs
                \/ /\ fs' = fsRemove(fs, targetPath)
                   /\ result' = recordRemoved(result, targetPath)
                   /\ log' = Append(log, [op |-> "remove", key |-> targetPath, outcome |-> "removed"])
                \/ /\ result' = recordRemoveError(result, targetPath)
                   /\ log' = Append(log, [op |-> "remove", key |-> targetPath, outcome |-> "failed"])
                   /\ UNCHANGED fs
    /\ k' = k + 1
    /\ UNCHANGED <<mode, syncIndex, pc, runs, items, plan,
                   status, isRunning, dirExists, library, stored, runConfig, runLibrary, ignored, service>>

\* Variant: the creations begin although removals are still to be made.
RemovalsDoneEarly ==
    /\ pc = "removing"
    /\ pc' = "creating"
    /\ k' = 1
    /\ UNCHANGED <<mode, syncIndex, fs, runs, items, plan, result, log,
                   status, isRunning, dirExists, library, stored, runConfig, runLibrary, ignored, service>>

\* executors.ts:89-93, 140-144: the removals are over, the creations begin.
RemovalsDone ==
    /\ pc = "removing"
    /\ k > Len(plan.toRemove)
    /\ pc' = "creating"
    /\ k' = 1
    /\ UNCHANGED <<mode, syncIndex, fs, runs, items, plan, result, log,
                   status, isRunning, dirExists, library, stored, runConfig, runLibrary, ignored, service>>

\* Variant: the "continue" after skipped++ is missing, the item is created
\* and indexed as well.
recordSkipFallsThrough(res, item, targetPath) ==
    [res EXCEPT !.skipped = @ + 1,
                !.created = @ + 1,
                !.newIndex = indexSet(@, item.id, targetPath)]

\* executors.ts:149-152, 202-205: the source file is not there.
recordSkip(res, item, targetPath) ==
    [res EXCEPT !.skipped = @ + 1]

\* Variant: the created item is entered under the name of its target
\* instead of its id.
recordCreatedByName(res, item, targetPath) ==
    [res EXCEPT !.created = @ + 1,
                !.newIndex = indexSet(@, basename(targetPath), targetPath)]

\* executors.ts:102-103, 155-156, 212-213
recordCreated(res, item, targetPath) ==
    [res EXCEPT !.created = @ + 1,
                !.newIndex = indexSet(@, item.id, targetPath)]

\* Variant: a failed creation gives up what the run created so far.
recordCreateErrorRollsBack(res, item, targetPath) ==
    [res EXCEPT !.errors = Append(@, [kind |-> "item", key |-> item.id]),
                !.created = 0,
                !.newIndex = <<>>]

\* executors.ts:104-106, 157-159, 214-216
recordCreateError(res, item, targetPath) ==
    [res EXCEPT !.errors = Append(@, [kind |-> "item", key |-> item.id])]

\* One iteration of the creation loop: executors.ts:94-107 (entry-dir),
\* 145-160 (entry-file), 198-217 (copy).
\*   "missing"  fs.stat of the source yields null, because there is no
\*              source or because the probe itself threw and the catch
\*              turned that into null: skipped (file modes)
\*   "created"  the link or copy is made, overwriting what is at the path
\*   "failed"   the creation primitive throws; what it overwrites may or may
\*              not have been removed already
CreateStep ==
    /\ pc = "creating"
    /\ k <= Len(plan.toCreate)
    /\ LET item == plan.toCreate[k].item
           targetPath == plan.toCreate[k].targetPath
       IN  \/ /\ runConfig.mode # "entry-dir"
              /\ result' = recordSkip(result, item, targetPath)
              /\ log' = Append(log, [op |-> "create", key |-> item.id, outcome |-> "missing"])
              /\ UNCHANGED fs
           \/ /\ fs' = fsPut(fs, targetPath, item.id)
              /\ result' = recordCreated(result, item, targetPath)
              /\ log' = Append(log, [op |-> "create", key |-> item.id, outcome |-> "created"])
           \/ /\ fs' \in {fs, fsRemove(fs, targetPath)}
              /\ result' = recordCreateError(result, item, targetPath)
              /\ log' = Append(log, [op |-> "create", key |-> item.id, outcome |-> "failed"])
    /\ k' = k + 1
    /\ UNCHANGED <<mode, syncIndex, pc, runs, items, plan,
                   status, isRunning, dirExists, library, stored, runConfig, runLibrary, ignored, service>>

\* Variant: the repaired index is written into the config the hooks hold
\* as it is built.
FinishExecuteInPlace ==
    /\ pc = "creating"
    /\ k > Len(plan.toCreate)
    /\ result' = [result EXCEPT !.newIndex = indexRepair(@, plan.toRemove, 1)]
    /\ syncIndex' = result'.newIndex
    /\ pc' = "executed"
    /\ UNCHANGED <<mode, fs, runs, items, plan, k, log,
                   status, isRunning, dirExists, library, stored, runConfig, runLibrary, ignored, service>>

\* executors.ts:109-119, 162-172, 219-229: the index repair, and the return
\* of executePlan.
FinishExecute ==
    /\ pc = "creating"
    /\ k > Len(plan.toCreate)
    /\ result' = [result EXCEPT !.newIndex = indexRepair(@, plan.toRemove, 1)]
    /\ pc' = "executed"
    /\ UNCHANGED <<mode, syncIndex, fs, runs, items, plan, k, log,
                   status, isRunning, dirExists, library, stored, runConfig, runLibrary, ignored, service>>

\* hooks/index.ts:167-178: setConfig as the closure of the run holds it:
\* the config of that closure with the updates laid over it is written
\* through the module-level configInstance and becomes the hooks' config.
setConfig(cfg, updates) == [f \in DOMAIN cfg |-> IF f \in DOMAIN updates THEN updates[f] ELSE cfg[f]]

\* useSync.tsx:142-157, 185-187 and hooks/index.ts:187-189: the new index is
\* persisted and the run ends; its plan and result are dropped.
Persist ==
    /\ pc = "executed"
    /\ LET newConfig == setConfig(runConfig, [syncIndex |-> result.newIndex])
       IN  /\ stored' = [stored EXCEPT ![library] = newConfig]
           /\ mode' = newConfig.mode
           /\ syncIndex' = newConfig.syncIndex
    /\ status' = IF Len(result.errors) > 0 THEN "error" ELSE "success"
    /\ isRunning' = FALSE
    /\ pc' = "idle"
    /\ items' = <<>>
    /\ plan' = emptyPlan
    /\ result' = emptyResult
    /\ k' = 1
    /\ log' = <<>>
    /\ ignored' = FALSE
    /\ UNCHANGED <<fs, runs, dirExists, library, runConfig, runLibrary>>
    /\ UNCHANGED service

Next ==
    \/ StartSync
    \/ EnsureDir
    \/ SyncDirFail
    \/ FetchAndPlan
    \/ RemoveStep
    \/ RemovalsDone
    \/ CreateStep
    \/ FinishExecute
    \/ Persist

Spec == Init /\ [][Next]_vars

\* ------------------------------------------------------- library switching
\* hooks/index.ts:130-133, 141-165: Eagle switches to another library;
\* refresh() binds configInstance to it and loads its stored config into the
\* hooks.  A run in flight goes on with the closures it has.
LibraryChanged ==
    /\ \E l \in Libraries \ {library} :
        /\ library' = l
        /\ mode' = stored[l].mode
        /\ syncIndex' = stored[l].syncIndex
    /\ UNCHANGED <<fs, pc, runs, items, plan, result, k, log,
                   status, isRunning, dirExists, stored, runConfig, runLibrary, ignored, service>>

\* The hooks of one window: the runs and the switches of library.  Both
\* libraries start with the default mode.
InitHooks ==
    /\ Init
    /\ mode = DEFAULT_CONFIG.mode

NextHooks ==
    \/ Next
    \/ LibraryChanged

SpecHooks == InitHooks /\ [][NextHooks]_vars

\* hooks/index.ts:167-185: a setter of the settings panel saves the config of
\* the current render with the update merged in.  The mode stands for the
\* settings (mode, target path, filter, interval, active flag).
SettingsChanged ==
    /\ isRunning
    /\ \E m \in Modes \ {mode} :
        LET newConfig == setConfig([mode |-> mode, syncIndex |-> syncIndex], [mode |-> m])
        IN  /\ stored' = [stored EXCEPT ![library] = newConfig]
            /\ mode' = newConfig.mode
            /\ syncIndex' = newConfig.syncIndex
    /\ UNCHANGED <<fs, pc, runs, items, plan, result, k, log,
                   status, isRunning, dirExists, library, runConfig, runLibrary, ignored, service>>

\* hooks/index.ts:191-195: the stored config is cleared and the hooks go
\* back to the defaults.
resetConfig ==
    /\ isRunning
    /\ <<mode, syncIndex>> # <<DEFAULT_CONFIG.mode, DEFAULT_CONFIG.syncIndex>>
    /\ stored' = [stored EXCEPT ![library] = DEFAULT_CONFIG]
    /\ mode' = DEFAULT_CONFIG.mode
    /\ syncIndex' = DEFAULT_CONFIG.syncIndex
    /\ UNCHANGED <<fs, pc, runs, items, plan, result, k, log,
                   status, isRunning, dirExists, library, runConfig, runLibrary, ignored, service>>

\* The runs of one window in the one library, and the settings panel used
\* while a run is in flight.
NextSettings ==
    \/ Next
    \/ SettingsChanged
    \/ resetConfig

SpecSettings == InitHooks /\ [][NextSettings]_vars

\* ------------------------------------------------- the background service
\* The app is loaded a second time as the background service, with hooks of
\* its own: a useSync with its own isRunningRef and a useConfig holding the
\* config it loaded.  The two instances share the target directory and the
\* stored configuration.
RECURSIVE fsRemoveAll(_, _, _)
fsRemoveAll(f, toRemove, n) ==
    IF n > Len(toRemove) THEN f
    ELSE fsRemoveAll(fsRemove(f, toRemove[n]), toRemove, n + 1)

RECURSIVE fsPutAll(_, _, _)
fsPutAll(f, toCreate, n) ==
    IF n > Len(toCreate) THEN f
    ELSE fsPutAll(fsPut(f, toCreate[n].targetPath, toCreate[n].item.id), toCreate, n + 1)

\* The filtered items a run of the service gets from eagle.item.getAll().
ServiceDesired == {<<>>, <<ItemA>>}

\* useSync.tsx:87-94 in the service instance: the guard reads the service's
\* own isRunningRef.
ServiceStartSync ==
    /\ ~service.isRunning
    /\ service.runs < MaxRuns
    /\ service' = [service EXCEPT !.isRunning = TRUE, !.runs = @ + 1]
    /\ UNCHANGED <<mode, syncIndex, fs, pc, runs, items, plan, result, k, log, status,
                   isRunning, dirExists, library, stored, runConfig, runLibrary, ignored>>

\* useSync.tsx:96-143, 185-187 in the service instance, for a run in which
\* every removal and creation succeeds: the plan is computed from the config
\* the service holds, executed on the shared target directory, and the new
\* index is saved to the shared stored configuration.
ServiceRun ==
    /\ service.isRunning
    /\ \E its \in ServiceDesired :
        LET config == service.config
            p == computeSyncPlan(its, config.syncIndex, config.mode, TargetDir)
            newIndex == indexRepair(indexAddCreated(config.syncIndex, p.toCreate, 1), p.toRemove, 1)
            newConfig == setConfig(config, [syncIndex |-> newIndex])
        IN  /\ fs' = fsPutAll(fsRemoveAll(fs, p.toRemove, 1), p.toCreate, 1)
            /\ stored' = [stored EXCEPT ![library] = newConfig]
            /\ service' = [service EXCEPT !.isRunning = FALSE, !.config = newConfig]
    /\ dirExists' = TRUE
    /\ UNCHANGED <<mode, syncIndex, pc, runs, items, plan, result, k, log, status,
                   isRunning, library, runConfig, runLibrary, ignored>>

\* The main window and the background service, in the one library.
NextService ==
    \/ Next
    \/ ServiceStartSync
    \/ ServiceRun

SpecService == InitHooks /\ [][NextService]_vars

\* The runs and the sync() calls that come while a run is in flight (the
\* interval, the button), in the one library.
NextCalls ==
    \/ Next
    \/ SyncIgnored

SpecCalls == InitHooks /\ [][NextCalls]_vars

\* ------------------------------------------------- plan preview (pure call)
\* Paths an arbitrary previous index may hold: bare and id-suffixed names of
\* A and B, and A's entry-dir path.
PathPool ==
    {generateTargetPath(it, TargetDir, "entry-file", n) :
        it \in {ItemA, ItemB},
        n \in {{}, {toLowerCase(sanitizeFilename(ItemA.name) \o <<".">> \o Png)}}}
    \cup {generateTargetPath(ItemA, TargetDir, "entry-dir", {})}

RECURSIVE indexesOf(_)
\* Every index of at most n entries over the catalog's ids and PathPool.
indexesOf(n) ==
    IF n = 0 THEN {<<>>}
    ELSE LET shorter == indexesOf(n - 1)
             longest == {t \in shorter : Len(t) = n - 1}
         IN  shorter \cup
             UNION {{Append(t, [id |-> i, path |-> q]) :
                        i \in Ids \ indexKeys(t), q \in PathPool} : t \in longest}

InitPlan ==
    /\ mode \in Modes
    /\ syncIndex \in indexesOf(MaxIndex)
    /\ fs = {}
    /\ pc = "preview"
    /\ runs = 0
    /\ items = <<>>
    /\ plan = emptyPlan
    /\ result = emptyResult
    /\ k = 1
    /\ log = <<>>
    /\ status = "idle"
    /\ isRunning = FALSE
    /\ dirExists = FALSE
    /\ library = LibA
    /\ stored = [l \in Libraries |->
                    IF l = LibA THEN [mode |-> mode, syncIndex |-> syncIndex] ELSE DEFAULT_CONFIG]
    /\ runConfig = [mode |-> mode, syncIndex |-> syncIndex]
    /\ runLibrary = LibA
    /\ ignored = FALSE
    /\ service = [isRunning |-> FALSE, runs |-> 0,
                  config |-> [mode |-> mode, syncIndex |-> syncIndex]]

\* Variant: planning takes the entries it is going to remove out of the
\* index it was given.
PlanPreviewConsuming ==
    /\ pc = "preview"
    /\ \E its \in DesiredSeqs :
        /\ items' = its
        /\ plan' = computeSyncPlan(its, syncIndex, mode, TargetDir)
    /\ syncIndex' = indexRepair(syncIndex, plan'.toRemove, 1)
    /\ pc' = "planned"
    /\ UNCHANGED <<mode, fs, runs, result, k, log,
                   status, isRunning, dirExists, library, stored, runConfig, runLibrary, ignored, service>>

\* core.ts:66-115: computeSyncPlan called on its own, as a preview.
PlanPreview ==
    /\ pc = "preview"
    /\ \E its \in DesiredSeqs :
        /\ items' = its
        /\ plan' = computeSyncPlan(its, syncIndex, mode, TargetDir)
    /\ pc' = "planned"
    /\ UNCHANGED <<mode, syncIndex, fs, runs, result, k, log,
                   status, isRunning, dirExists, library, stored, runConfig, runLibrary, ignored, service>>

\* core.ts:124-147: buildNewIndex called on the index and the plan at hand.
BuildIndex ==
    /\ pc = "planned"
    /\ result' = [emptyResult EXCEPT !.newIndex = buildNewIndex(syncIndex, plan)]
    /\ pc' = "built"
    /\ UNCHANGED <<mode, syncIndex, fs, runs, items, plan, k, log,
                   status, isRunning, dirExists, library, stored, runConfig, runLibrary, ignored, service>>

NextPlan == PlanPreview

SpecPlan == InitPlan /\ [][NextPlan]_vars

\* The sync runs and the calls of the library functions on their own,
\* together.
InitAll == Init \/ InitPlan

NextAll ==
    \/ Next
    \/ NextPlan
    \/ BuildIndex

SpecAll == InitAll /\ [][NextAll]_vars

\* ----------------------------------------------- naming preview (pure call)
RECURSIVE stringsOver(_, _)
\* Every string of at most n characters of the alphabet.
stringsOver(alphabet, n) ==
    IF n = 0 THEN {<<>>}
    ELSE LET shorter == stringsOver(alphabet, n - 1)
         IN  shorter \cup {Append(t, c) : t \in {u \in shorter : Len(u) = n - 1}, c \in alphabet}

\* Items of any name, extension and id: SyncItem declares the three as
\* plain strings.
AnyNames == stringsOver({"a", ":", "/"}, MaxNameLen)
AnyExts == stringsOver({"p", ":"}, MaxNameLen) \ {<<>>}
AnyIds == {<<"i", "d">>, <<"i", "?">>}

InitNames ==
    /\ Init
    /\ mode # "entry-dir"

\* core.ts:41-55: generateTargetPath called on its own, for one item, with
\* its base name free or taken.
NamePreview ==
    /\ pc = "idle"
    /\ runs = 0
    /\ \E name \in AnyNames, ext \in AnyExts, id \in AnyIds, taken \in BOOLEAN :
          LET it == [id |-> id, name |-> name, ext |-> ext]
              names == IF taken
                       THEN {toLowerCase(sanitizeFilename(name) \o <<".">> \o ext)}
                       ELSE {}
          IN  /\ items' = <<it>>
              /\ plan' = [emptyPlan EXCEPT !.toCreate =
                            <<[item |-> it,
                               targetPath |-> generateTargetPath(it, TargetDir, mode, names)]>>]
    /\ pc' = "named"
    /\ UNCHANGED <<mode, syncIndex, fs, runs, result, k, log,
                   status, isRunning, dirExists, library, stored, runConfig, runLibrary, ignored, service>>

NextNames == NamePreview

SpecNames == InitNames /\ [][NextNames]_vars

\* ------------------------------------------------------------------ claims
\* A plan is at hand: items, plan and syncIndex are those of one
\* computeSyncPlan call.
planned == pc \in {"planned", "removing", "creating", "executed"}

desiredIds == {items[j].id : j \in DOMAIN items}
createIds == {plan.toCreate[j].item.id : j \in DOMAIN plan.toCreate}
keptIds == indexKeys(syncIndex) \cap desiredIds
count(seq, x) == Cardinality({j \in DOMAIN seq : seq[j] = x})
lowerName(path) == toLowerCase(basename(path))
bareNameOf(item) == sanitizeFilename(item.name) \o <<".">> \o item.ext
suffixedNameOf(item) ==
    sanitizeFilename(item.name) \o <<" ", "(">> \o toUpperCase(slice0(item.id, IdPrefixLen))
        \o <<")", ".">> \o item.ext

\* C1: toCreate holds exactly the desired ids that are not keys of the
\* previous index, each once; toRemove holds exactly the paths of the index
\* entries whose id is not desired (as many times as there are such
\* entries); the created ids and the kept ids together are the desired ids.
C1_Partition ==
    planned =>
        /\ createIds = desiredIds \ indexKeys(syncIndex)
        /\ Len(plan.toCreate) = Cardinality(desiredIds \ indexKeys(syncIndex))
        /\ \A q \in PathPool \cup {plan.toRemove[j] : j \in DOMAIN plan.toRemove} :
              count(plan.toRemove, q) =
              Cardinality({j \in DOMAIN syncIndex :
                              syncIndex[j].id \notin desiredIds /\ syncIndex[j].path = q})
        /\ createIds \cup keptIds = desiredIds

C1_Witness ==
    /\ planned
    /\ Len(plan.toCreate) > 0
    /\ Len(plan.toRemove) > 0
    /\ keptIds # {}

\* C2: no two toCreate entries of one plan have target paths whose final
\* components are equal ignoring case.
C2_UniqueTargets ==
    planned =>
        \A a, b \in DOMAIN plan.toCreate :
            a # b => lowerName(plan.toCreate[a].targetPath) # lowerName(plan.toCreate[b].targetPath)

\* The names held when the j-th new item is named: those of the kept index
\* entries and of the new items before it.
heldBefore(j) ==
    {lowerName(syncIndex[i].path) : i \in {n \in DOMAIN syncIndex : syncIndex[n].id \in desiredIds}}
    \cup {lowerName(plan.toCreate[i].targetPath) : i \in 1..(j - 1)}

\* C6: in entry-file and copy modes the new items are named in the caller's
\* order, and a new item gets its bare name exactly when no kept entry and
\* no earlier new item holds that name (ignoring case), and the id-suffixed
\* name otherwise.
C6_FirstClaimKeepsBareName ==
    (planned /\ mode # "entry-dir") =>
        /\ [j \in DOMAIN plan.toCreate |-> plan.toCreate[j].item] =
           SelectSeq(items, LAMBDA it : it.id \notin indexKeys(syncIndex))
        /\ \A j \in DOMAIN plan.toCreate :
              LET e == plan.toCreate[j]
              IN  /\ (toLowerCase(bareNameOf(e.item)) \notin heldBefore(j))
                        <=> (e.targetPath = pathJoin(TargetDir, bareNameOf(e.item)))
                  /\ (toLowerCase(bareNameOf(e.item)) \in heldBefore(j))
                        <=> (e.targetPath = pathJoin(TargetDir, suffixedNameOf(e.item)))

\* Two new items of equal name, A before C, on an empty index: a_.png and
\* a_ (BBBBBBBB).png.
C6_Witness ==
    /\ planned
    /\ mode = "entry-file"
    /\ syncIndex = <<>>
    /\ items = <<ItemA, ItemC>>
    /\ plan.toCreate[1].targetPath = <<"T", "/", "a", "_", ".", "p", "n", "g">>
    /\ plan.toCreate[2].targetPath =
          <<"T", "/", "a", "_", " ", "(", "B","B","B","B","B","B","B","B", ")", ".", "p", "n", "g">>

\* The j-th new item's bare name is the name of an index entry that is being
\* removed, and of no kept entry or earlier new item.
freedNameCase(j) ==
    /\ \E i \in DOMAIN syncIndex :
          /\ syncIndex[i].id \notin desiredIds
          /\ lowerName(syncIndex[i].path) = toLowerCase(bareNameOf(plan.toCreate[j].item))
    /\ toLowerCase(bareNameOf(plan.toCreate[j].item)) \notin heldBefore(j)

\* C7: an index entry whose item is no longer desired does not reserve its
\* name: a new item whose bare name equals it (ignoring case) gets the bare
\* name, provided no kept entry or earlier new item holds it.
C7_FreedNameIsReused ==
    (planned /\ mode # "entry-dir") =>
        \A j \in DOMAIN plan.toCreate :
            freedNameCase(j) =>
                plan.toCreate[j].targetPath = pathJoin(TargetDir, bareNameOf(plan.toCreate[j].item))

C7_Witness ==
    /\ planned
    /\ mode # "entry-dir"
    /\ \E j \in DOMAIN plan.toCreate : freedNameCase(j)

NamePool == {lowerName(q) : q \in PathPool}
\* Sets of names in use: none, each name alone, all of them.
NameSets == {{}, NamePool} \cup {{n} : n \in NamePool}

\* C8: in entry-dir mode the target path is targetDir/{id}.info whatever
\* names are in use, and two items of one plan never get the same path.
C8_EntryDirPaths ==
    (planned /\ mode = "entry-dir") =>
        /\ \A it \in Catalog : \A names \in NameSets :
              generateTargetPath(it, TargetDir, mode, names) =
                  TargetDir \o <<"/">> \o it.id \o <<".", "i", "n", "f", "o">>
        /\ \A a, b \in DOMAIN plan.toCreate :
              /\ plan.toCreate[a].targetPath =
                    TargetDir \o <<"/">> \o plan.toCreate[a].item.id \o <<".", "i", "n", "f", "o">>
              /\ a # b => plan.toCreate[a].targetPath # plan.toCreate[b].targetPath

\* Two new items of equal name and extension, in entry-dir mode, while a kept
\* entry holds a name.
C8_Witness ==
    /\ planned
    /\ mode = "entry-dir"
    /\ keptIds # {}
    /\ \E a, b \in DOMAIN plan.toCreate :
          /\ a # b
          /\ plan.toCreate[a].item.name = plan.toCreate[b].item.name
          /\ plan.toCreate[a].item.ext = plan.toCreate[b].item.ext

\* executePlan has returned: result is the SyncResult of the run, syncIndex
\* is still the previous index.
executed == pc = "executed"
cleanRun == executed /\ result.errors = <<>> /\ result.skipped = 0
indexPaths(index) == {toLowerCase(index[j].path) : j \in DOMAIN index}
distinctKeys(index) == \A a, b \in DOMAIN index : a # b => index[a].id # index[b].id

\* C3: after a run without errors newIndex has exactly one entry for every
\* desired item and none for any other id.  Stated for the runs that also
\* skipped nothing (an item skipped for a missing source is left out of
\* newIndex without an error, see C10).
C3_IndexIsDesiredSet ==
    cleanRun => (indexKeys(result.newIndex) = desiredIds /\ distinctKeys(result.newIndex))

\* C4: idempotence: planning again with the same desired items and the
\* newIndex of the run gives nothing to create and nothing to remove.  Stated
\* for the runs without errors and skips (a skipped or failed creation is
\* planned again by design).
C4_Idempotent ==
    cleanRun =>
        LET again == computeSyncPlan(items, result.newIndex, mode, TargetDir)
        IN  again.toCreate = <<>> /\ again.toRemove = <<>>

\* C5: after every run without errors and skips, the entries of the target
\* directory are exactly the paths of newIndex, one distinct entry per
\* desired item.
C5_DirectoryMatchesIndex ==
    cleanRun =>
        /\ {e.path : e \in fs} = indexPaths(result.newIndex)
        /\ indexKeys(result.newIndex) = desiredIds
        /\ Cardinality(fs) = Cardinality(desiredIds)

\* The desired set of the run is the set of the indexed items less one.
oneItemDropped ==
    /\ executed
    /\ desiredIds \subseteq indexKeys(syncIndex)
    /\ Cardinality(indexKeys(syncIndex) \ desiredIds) = 1

\* C9: dropping one item from the desired set puts exactly that item's path
\* in toRemove, and after the run every other item has the target path in
\* the index that it had before.
C9_OthersUntouched ==
    oneItemDropped =>
        /\ plan.toRemove =
              <<indexGet(syncIndex, CHOOSE x \in indexKeys(syncIndex) : x \notin desiredIds)>>
        /\ \A id \in desiredIds :
              /\ id \in indexKeys(result.newIndex)
              /\ indexGet(result.newIndex, id) = indexGet(syncIndex, id)

createLog == SelectSeq(log, LAMBDA e : e.op = "create")
idsWithOutcome(o) == {createLog[j].key : j \in {n \in DOMAIN createLog : createLog[n].outcome = o}}

\* C10: in entry-file and copy modes an item whose source file is missing is
\* counted in skipped, gets no error and no index entry, and the other items
\* of the plan are still attempted, created and indexed under their target
\* path; two creations of which one has no source, on an empty index, give
\* created 1, skipped 1, no errors and a newIndex of the created item alone.
C10_MissingSourceIsSkipped ==
    (executed /\ mode # "entry-dir") =>
        /\ Len(createLog) = Len(plan.toCreate)
        /\ result.skipped = Cardinality(idsWithOutcome("missing"))
        /\ result.created = Cardinality(idsWithOutcome("created"))
        /\ \A j \in DOMAIN createLog :
              /\ createLog[j].key = plan.toCreate[j].item.id
              /\ createLog[j].outcome = "missing" =>
                    /\ createLog[j].key \notin indexKeys(result.newIndex)
                    /\ \A n \in DOMAIN result.errors : result.errors[n].key # createLog[j].key
              /\ createLog[j].outcome = "created" =>
                    /\ createLog[j].key \in indexKeys(result.newIndex)
                    /\ indexGet(result.newIndex, createLog[j].key) = plan.toCreate[j].targetPath
        /\ (/\ syncIndex = <<>>
            /\ Len(plan.toCreate) = 2
            /\ Cardinality(idsWithOutcome("missing")) = 1
            /\ Cardinality(idsWithOutcome("created")) = 1)
           => /\ result.created = 1
              /\ result.skipped = 1
              /\ result.errors = <<>>
              /\ indexKeys(result.newIndex) = idsWithOutcome("created")
              /\ Len(result.newIndex) = 1

C10_Witness ==
    /\ executed
    /\ mode = "copy"
    /\ syncIndex = <<>>
    /\ Len(plan.toCreate) = 2
    /\ createLog[1].outcome = "missing"
    /\ createLog[2].outcome = "created"
    /\ result.created = 1
    /\ result.skipped = 1
    /\ result.errors = <<>>
    /\ Len(result.newIndex) = 1

removeLog == SelectSeq(log, LAMBDA e : e.op = "remove")
removalsWithOutcome(o) == {j \in DOMAIN removeLog : removeLog[j].outcome = o}
pathErrors == {result.errors[n].key : n \in {m \in DOMAIN result.errors : result.errors[m].kind = "path"}}
itemErrors == {result.errors[n].key : n \in {m \in DOMAIN result.errors : result.errors[m].kind = "item"}}

\* C11: a toRemove path at which the filesystem holds nothing gets no error
\* and does not count in removed (removed counts the paths that were there
\* and were removed), and the rest of the plan is processed: every toRemove
\* path and every toCreate entry is gone through, in order.
C11_AbsentPathTolerated ==
    executed =>
        /\ Len(removeLog) = Len(plan.toRemove)
        /\ Len(createLog) = Len(plan.toCreate)
        /\ \A j \in DOMAIN removeLog :
              /\ removeLog[j].key = plan.toRemove[j]
              /\ removeLog[j].outcome = "absent" => removeLog[j].key \notin pathErrors
        /\ result.removed = Cardinality(removalsWithOutcome("removed"))

C11_Witness ==
    /\ executed
    /\ \E j \in removalsWithOutcome("absent") : j < Len(removeLog)
    /\ removalsWithOutcome("removed") # {}
    /\ idsWithOutcome("created") # {}
    /\ result.errors = <<>>

\* The creation of toCreate[j] is the last of the plan at its path.
lastAtPath(j) ==
    \A n \in DOMAIN plan.toCreate :
        n > j => toLowerCase(plan.toCreate[n].targetPath) # toLowerCase(plan.toCreate[j].targetPath)

C13_EveryFailureReported ==
    executed =>
        /\ \A j \in DOMAIN removeLog :
              removeLog[j].outcome \in {"failed", "unprobed"} => removeLog[j].key \in pathErrors
        /\ \A j \in DOMAIN createLog :
              createLog[j].outcome = "failed" => createLog[j].key \in itemErrors

\* C14: within one executePlan run, in every mode, every removal of the plan
\* has been attempted before the first creation is attempted: no removal
\* follows a creation in the history of the run, and once a creation has
\* been attempted every toRemove path has been gone through.
C14_RemovalsBeforeCreations ==
    /\ \A a, b \in DOMAIN log :
          (log[a].op = "create" /\ log[b].op = "remove") => b < a
    /\ (\E a \in DOMAIN log : log[a].op = "create")
          => /\ Len(removeLog) = Len(plan.toRemove)
             /\ \A j \in DOMAIN removeLog : removeLog[j].key = plan.toRemove[j]

C14_Witness ==
    /\ pc = "creating"
    /\ Len(plan.toRemove) = 2
    /\ Len(removeLog) = 2
    /\ Len(plan.toCreate) = 2
    /\ Len(createLog) = 1

\* C15: computeSyncPlan has no side effects, called on its own or by a
\* sync run: the call leaves the previous index (the hooks' and the one the
\* run holds), the mode and the filesystem as they were, and a call with the
\* arguments as they are after the call returns the plan the first call
\* returned.
C15_PlanningIsPure ==
    [][((pc = "preview" /\ pc' = "planned") \/ (pc = "fetching" /\ pc' = "removing")) =>
          /\ syncIndex' = syncIndex
          /\ runConfig' = runConfig
          /\ mode' = mode
          /\ fs' = fs
          /\ plan' = computeSyncPlan(items', runConfig'.syncIndex, runConfig'.mode, TargetDir)]_vars

\* A plan was computed by a run over a previous index of two entries whose
\* links are in the directory.
C15_Witness ==
    /\ pc = "removing"
    /\ k = 1
    /\ Len(syncIndex) = 2
    /\ Cardinality(fs) = 2
    /\ Len(plan.toRemove) > 0
    /\ Len(plan.toCreate) > 0
    /\ log = <<>>

\* C16: the index is never changed in place: no step of executePlan (a
\* removal, a creation, failed or not, the index repair) and no call of
\* buildNewIndex changes the previous index, neither the one the hooks hold
\* nor the one the run was given nor the stored one; the new index is a
\* value of its own, in result.
C16_IndexNotMutated ==
    [][(pc \in {"removing", "creating"} \/ (pc = "planned" /\ pc' = "built")) =>
          /\ syncIndex' = syncIndex
          /\ runConfig' = runConfig
          /\ stored' = stored]_vars

\* executePlan has returned with errors, and its new index differs from the
\* previous one, which is as it was.
C16_Witness ==
    /\ executed
    /\ Len(syncIndex) = 2
    /\ syncIndex = runConfig.syncIndex
    /\ result.newIndex # syncIndex
    /\ Len(result.errors) > 0
    /\ result.removed > 0
    /\ result.created > 0

\* C17: in a sync run the target directory is made before the items are
\* fetched and before the plan is computed: while ensureTargetDir is
\* awaited nothing is fetched, planned or attempted, and the fetch starts
\* only with the directory in place.  When ensureTargetDir fails the run
\* ends in the error state: nothing was removed or created and no index is
\* persisted.
C17_TargetDirFirst ==
    [][/\ pc = "ensuring" => (items = <<>> /\ plan = emptyPlan /\ log = <<>>)
       /\ pc = "fetching" => dirExists
       /\ (pc = "ensuring" /\ pc' = "idle") =>
             /\ status' = "error"
             /\ ~isRunning'
             /\ UNCHANGED <<syncIndex, mode, stored, fs, items, plan, result, log>>]_vars

\* The first run ended at the failure of ensureTargetDir.
C17_Witness ==
    /\ pc = "idle"
    /\ runs = 1
    /\ ~dirExists
    /\ status = "error"
    /\ ~isRunning
    /\ fs = {}
    /\ syncIndex = <<>>

\* C18: within one useSync instance at most one run is in flight: a run
\* begins only when none is running, and a sync() call made while a run is
\* in flight returns at the guard: it makes no target directory, fetches and
\* plans nothing, attempts nothing and touches neither the index nor the
\* run in flight.
C18_OneRunInFlight ==
    [][/\ isRunning <=> pc # "idle"
       /\ runs' # runs => (~isRunning /\ isRunning' /\ runs' = runs + 1)
       /\ (isRunning /\ ~ignored /\ ignored') =>
             UNCHANGED <<mode, syncIndex, fs, pc, runs, items, plan, result, k, log,
                         status, isRunning, dirExists, library, stored, runConfig, runLibrary>>]_vars

\* A sync() call came during a run that went on to the return of
\* executePlan.
C18_Witness ==
    /\ executed
    /\ ignored
    /\ isRunning
    /\ runs = 1
    /\ result.created > 0

\* C19: the stored configuration of a library is written only by a run
\* that began while that library was current: a run never writes its index
\* or its settings into the stored configuration of another library, also
\* when the library is switched during the run.
C19_LibrariesIndependent ==
    [][\A l \in Libraries : stored'[l] # stored[l] => l = runLibrary]_vars

\* C20: in entry-file and copy modes generateTargetPath returns
\* targetDir/{sanitized name}.{ext} when the lower-cased base name is not in
\* namesInUse, and targetDir/{sanitized name} ({first 8 characters of the
\* id, upper-cased}).{ext} otherwise; the name returned keeps the item's own
\* case; the two modes return the same path.  Stated for every new item of
\* a plan, against the names held when it was named.
C20_FileModePaths ==
    (pc = "planned" /\ mode # "entry-dir") =>
        \A j \in DOMAIN plan.toCreate :
            LET it == plan.toCreate[j].item
                names == heldBefore(j)
                inFile == generateTargetPath(it, TargetDir, "entry-file", names)
                inCopy == generateTargetPath(it, TargetDir, "copy", names)
            IN  /\ inFile = inCopy
                /\ inFile = IF toLowerCase(bareNameOf(it)) \in names
                            THEN TargetDir \o <<"/">> \o suffixedNameOf(it)
                            ELSE TargetDir \o <<"/">> \o bareNameOf(it)
                /\ plan.toCreate[j].targetPath = inFile

\* In copy mode B ("A:", id bBBBBBBB1) is new while a kept entry holds
\* a_.png: B is named "A_ (BBBBBBBB).png".
C20_Witness ==
    /\ pc = "planned"
    /\ mode = "copy"
    /\ keptIds # {}
    /\ \E j \in DOMAIN plan.toCreate :
          /\ plan.toCreate[j].item = ItemB
          /\ plan.toCreate[j].targetPath =
                TargetDir \o <<"/", "A", "_", " ", "(", "B", "B", "B", "B", "B", "B", "B", "B", ")", ".">> \o Png
          /\ <<"a", "_", ".">> \o Png \in heldBefore(j)

hasInvalidChar(name) == \E n \in DOMAIN name : name[n] \in INVALID_FILENAME_CHARS

\* C21: the path generateTargetPath returns in entry-file or copy mode is
\* filesystem-legal for every item, whatever its name, extension and id: it
\* is targetDir, a separator and a final component in which none of the
\* characters < > : " / \ | ? * occurs.
C21_LegalFinalComponent ==
    pc = "named" =>
        LET targetPath == plan.toCreate[1].targetPath
            final == SubSeq(targetPath, Len(TargetDir) + 2, Len(targetPath))
        IN  /\ SubSeq(targetPath, 1, Len(TargetDir) + 1) = TargetDir \o <<"/">>
            /\ ~hasInvalidChar(final)

indexEntries(index) == {index[j] : j \in DOMAIN index}

\* C22: buildNewIndex(currentIndex, plan) is currentIndex without the
\* entries whose path is listed in plan.toRemove, and with an entry
\* id -> targetPath for every plan.toCreate entry; for an empty plan it is
\* currentIndex.
C22_BuildNewIndex ==
    pc = "built" =>
        /\ indexEntries(result.newIndex) =
              {e \in indexEntries(syncIndex) :
                  /\ \A j \in DOMAIN plan.toRemove : plan.toRemove[j] # e.path
                  /\ e.id \notin createIds}
              \cup {[id |-> plan.toCreate[j].item.id, path |-> plan.toCreate[j].targetPath] :
                       j \in DOMAIN plan.toCreate}
        /\ (plan.toCreate = <<>> /\ plan.toRemove = <<>>) => result.newIndex = syncIndex

\* C23: across the runs that start from an empty index and persist each
\* newIndex as the next previous index, every key of the index is the id of
\* an item desired in that run or in an earlier one.  Stated as the step
\* that carries it from run to run: the keys of the index being built are
\* keys of the previous index or ids desired in this run, and so are the
\* keys of the index a run persists.
C23_KeysWereDesired ==
    [][/\ pc' \in {"removing", "creating", "executed"} =>
             indexKeys(result'.newIndex) \subseteq
                 indexKeys(runConfig'.syncIndex) \cup {items'[j].id : j \in DOMAIN items'}
       /\ indexKeys(syncIndex') \subseteq indexKeys(syncIndex) \cup desiredIds]_vars

\* The second run has returned: its new index holds an item kept from the
\* first run and an item that is new in this one.
C23_Witness ==
    /\ executed
    /\ runs = 2
    /\ indexKeys(result.newIndex) \cap indexKeys(syncIndex) # {}
    /\ indexKeys(result.newIndex) \ indexKeys(syncIndex) # {}
    /\ indexKeys(syncIndex) \ indexKeys(result.newIndex) # {}

\* C24: an item that is in the previous index and still desired is left
\* alone by the run: it is in neither toCreate nor toRemove, no removal and
\* no creation of the run goes to its target path, and its index entry is in
\* newIndex as it was.
C24_KeptItemLeftAlone ==
    executed =>
        \A id \in keptIds :
            LET path == indexGet(syncIndex, id)
            IN  /\ id \notin createIds
                /\ \A j \in DOMAIN plan.toRemove : plan.toRemove[j] # path
                /\ \A j \in DOMAIN plan.toCreate :
                      toLowerCase(plan.toCreate[j].targetPath) # toLowerCase(path)
                /\ id \in indexKeys(result.newIndex)
                /\ indexGet(result.newIndex, id) = path

\* C25: after executePlan, every entry of the previous index whose path is in
\* toRemove is absent from newIndex, whatever the outcome of its removal.
C25_IndexRepair ==
    executed =>
        \A e \in indexEntries(syncIndex) :
            (\E j \in DOMAIN plan.toRemove : plan.toRemove[j] = e.path) =>
                e \notin indexEntries(result.newIndex)

\* C26: in entry-file and copy mode, across the runs from an empty index, no
\* two ids of the persisted index have target paths whose final components
\* are equal ignoring case.
C26_PersistedNamesUnique ==
    mode # "entry-dir" =>
        \A i, j \in DOMAIN syncIndex :
            i # j => toLowerCase(basename(syncIndex[i].path)) #
                     toLowerCase(basename(syncIndex[j].path))

\* C27: the step that persists a run's index leaves the settings as they are,
\* in the hooks and in the stored configuration: a settings change or a reset
\* saved while the run was in flight is still in effect afterwards.
C27_SettingsSurviveRun ==
    [][(pc = "executed" /\ pc' = "idle") =>
          /\ mode' = mode
          /\ stored'[library].mode = stored[library].mode]_vars

\* The toCreate entries that were given the path of an index entry of an item
\* no longer desired, a path the same run removes.
reusesFreedPath(j, e) ==
    /\ e.id \notin desiredIds
    /\ plan.toCreate[j].targetPath = e.path
    /\ \E n \in DOMAIN plan.toRemove : plan.toRemove[n] = e.path

removedBeforeCreated(j, e) ==
    \A a \in DOMAIN log :
        (log[a].op = "create" /\ log[a].key = plan.toCreate[j].item.id) =>
            \E b \in 1..(a - 1) : log[b].op = "remove" /\ log[b].key = e.path

errorCount(kind) == Cardinality({n \in DOMAIN result.errors : result.errors[n].kind = kind})

\* C29: result accounting.  created + skipped + (errors keyed by item) is the
\* length of toCreate; removed + (errors keyed by path) is at most the length
\* of toRemove, and equal to it exactly when every toRemove path was on disk
\* when its removal came up.
C29_Accounting ==
    executed =>
        /\ result.created + result.skipped + errorCount("item") = Len(plan.toCreate)
        /\ result.removed + errorCount("path") <= Len(plan.toRemove)
        /\ (result.removed + errorCount("path") = Len(plan.toRemove))
              <=> (\A j \in DOMAIN removeLog : removeLog[j].outcome # "absent")

\* C30: the main-window instance and the background-service instance never
\* have sync runs in flight at the same time against the one target
\* directory and the one stored index.
C30_NoOverlappingRuns ==
    ~(isRunning /\ service.isRunning)

=============================================================================
